---- MODULE Spec2Model ----
(***************************************************************************)
(* Table detection and flow assembly of the advanced PDF to DOCX converter *)
(* (src/pdf2docx_advanced.py): TableDetector.detect_tables with its        *)
(* helpers, and the per-page loop of AdvancedPDF2DOCXConverter.convert.    *)
(* Line grouping, heading classification and the page loop of the custom   *)
(* converter (src/pdf2docx_custom.py), and the page loops of both          *)
(* converters over whole documents.                                        *)
(*                                                                         *)
(* Units.  Vertical positions (TextLine.y, y_start, y_end) are integers in *)
(* hundredths of a page unit, so 100.04 is 10004 and the 2.0 row tolerance *)
(* is 200.  Horizontal positions and widths are integers in page units.    *)
(* Every y the model draws is off the rounding ties of round(y, 1) and     *)
(* rounds to a whole unit, where Python's float arithmetic is exact.       *)
(*                                                                         *)
(* Text.  A string is a sequence of one-character strings; " " is the only *)
(* whitespace character drawn.                                             *)
(***************************************************************************)
EXTENDS Integers, Sequences, FiniteSets

VARIABLES
    text_lines,     \* content['text_lines'] of the page, in supply order
    pc,             \* "detect" | "extract" | "convert" | "done"
    i,              \* detect_tables: cursor into sorted_ys (1-based)
    tables,         \* detect_tables: the list of TableStructure found so far
    headers,        \* _extract_table: headers of the table being extracted
    col_positions,  \* _extract_table: column anchors
    row_groups,     \* _extract_table: the (row_y, row_lines) groups
    g,              \* _extract_table: index of the next row group
    rows,           \* _extract_table: rows built so far
    table_y_end,    \* _extract_table: y of the last accepted row group
    accepted,       \* history: the rows accepted so far, as extracted, before folding
    taken,          \* history: indices of the lines whose spans went into the table
    origin,         \* history: per returned table, its accepted rows and taken lines
    rejected,       \* history: lines of header matches for which None was returned
    k,              \* convert: index of the next line of text_lines
    tables_added,   \* convert: indices of the tables already added
    out,            \* the generator's document: the elements added, in order
    blocks,         \* group_into_lines: the TextBlocks passed in, in supply order
    grouped,        \* group_into_lines: the lines returned
    stage,          \* "idle" | "start" | "grouped" | "regrouped" | "merged"
    merged,         \* convert: merged_block of every line, once merged
    doc,            \* the pages of the PDF as the Content Source yields them
    converter,      \* "none" | "advanced" | "custom": the convert() that runs
    page_num,       \* convert: the page of the next iteration (0-based)
    flow,           \* the generator's document over the whole conversion
    status          \* "idle" | "running" | "saved" | "raised"

vars == <<text_lines, pc, i, tables, headers, col_positions, row_groups, g, rows,
          table_y_end, accepted, taken, origin, rejected, k, tables_added, out,
          blocks, grouped, stage, merged, doc, converter, page_num, flow, status>>

layoutVars == <<blocks, grouped, stage, merged>>

docVars == <<doc, converter, page_num, flow, status>>

extractVars == <<headers, col_positions, row_groups, g, rows, table_y_end,
                 accepted, taken>>
convertVars == <<k, tables_added, out>>

(***************************************************************************)
(* Bounds of the model and constants of the program                        *)
(***************************************************************************)
MaxLines == 5           \* lines on a page
MaxHeaderSpans == 3     \* spans per line in the header-test specification

MinHeaderSpans == 3     \* len(all_spans) < 3
GapThreshold == 5       \* gap > 5
RowTolerance == 200     \* abs(y - current_row_y) <= 2.0
CutoffY == 20000        \* y - header_y > 200
ColTolerance == 30      \* tolerance = 30
EmitTolerance == 100    \* abs(line.y - y_start) <= 1.0

(***************************************************************************)
(* Generic helpers                                                         *)
(***************************************************************************)
Abs(n) == IF n < 0 THEN -n ELSE n

Range(s) == {s[n] : n \in DOMAIN s}

RECURSIVE SetToSortedSeq(_)
\* sorted(y_groups.keys())
SetToSortedSeq(S) ==
    IF S = {} THEN <<>>
    ELSE LET m == CHOOSE a \in S : \A b \in S : a <= b
         IN  <<m>> \o SetToSortedSeq(S \ {m})

RECURSIVE Flatten(_)
Flatten(ss) == IF ss = <<>> THEN <<>> ELSE Head(ss) \o Flatten(Tail(ss))

RECURSIVE Strip(_)
\* str.strip(): leading and trailing whitespace removed
Strip(t) ==
    IF t = <<>> THEN <<>>
    ELSE IF Head(t) = " " THEN Strip(Tail(t))
    ELSE IF t[Len(t)] = " " THEN Strip(SubSeq(t, 1, Len(t) - 1))
    ELSE t

RECURSIVE InsertByX(_, _)
\* s placed after every span whose x is <= s.x: the stable order of sorted()
InsertByX(s, sorted) ==
    IF sorted = <<>> THEN <<s>>
    ELSE IF s.x < Head(sorted).x THEN <<s>> \o sorted
    ELSE <<Head(sorted)>> \o InsertByX(s, Tail(sorted))

SortByXAsGiven(spans) == spans

RECURSIVE SortByX(_)
\* sorted(spans, key=lambda s: s.x), stable
SortByX(spans) ==
    IF spans = <<>> THEN <<>>
    ELSE InsertByX(spans[Len(spans)], SortByX(SubSeq(spans, 1, Len(spans) - 1)))

(***************************************************************************)
(* detect_tables: grouping by rounded y                                    *)
(***************************************************************************)
\* round(line.y, 1), on hundredths; the y drawn are never on a tie
Round1(y) == ((y + 5) \div 10) * 10

YKey(lines, n) == Round1(lines[n].y)

\* sorted_ys
SortedYs(lines) == SetToSortedSeq({YKey(lines, n) : n \in DOMAIN lines})

RECURSIVE GroupIdx(_, _, _)
\* y_groups[y], as the indices of its lines in supply order
GroupIdx(lines, y, n) ==
    IF n > Len(lines) THEN <<>>
    ELSE (IF YKey(lines, n) = y THEN <<n>> ELSE <<>>) \o GroupIdx(lines, y, n + 1)

YGroup(lines, y) == GroupIdx(lines, y, 1)

\* the TextLine objects at the indices idx
LinesAt(lines, idx) == [n \in DOMAIN idx |-> lines[idx[n]]]

\* "for line in lines: all_spans.extend(line.spans)"
AllSpans(ls) == Flatten([n \in DOMAIN ls |-> ls[n].spans])

(***************************************************************************)
(* _is_table_header                                                        *)
(***************************************************************************)
Gaps(sorted_spans) ==
    [n \in 1..(Len(sorted_spans) - 1) |->
        sorted_spans[n + 1].x - (sorted_spans[n].x + sorted_spans[n].width)]

IsTableHeaderLooseCount(ls) ==
    LET all_spans == AllSpans(ls)
        all_bold == \A n \in DOMAIN all_spans : all_spans[n].is_bold
        gaps == Gaps(SortByX(all_spans))
    IN  IF all_spans = <<>> THEN FALSE
        ELSE IF Len(all_spans) < 2 THEN FALSE
        ELSE all_bold /\ (\E n \in DOMAIN gaps : gaps[n] > GapThreshold)

IsTableHeaderAnyBold(ls) ==
    LET all_spans == AllSpans(ls)
        some_bold == \E n \in DOMAIN all_spans : all_spans[n].is_bold
        gaps == Gaps(SortByX(all_spans))
    IN  IF all_spans = <<>> THEN FALSE
        ELSE IF Len(all_spans) < MinHeaderSpans THEN FALSE
        ELSE some_bold /\ (\E n \in DOMAIN gaps : gaps[n] > GapThreshold)

\* _is_table_header(lines)
IsTableHeader(ls) ==
    LET all_spans == AllSpans(ls)
        all_bold == \A n \in DOMAIN all_spans : all_spans[n].is_bold
        gaps == Gaps(SortByX(all_spans))
        has_gaps == \E n \in DOMAIN gaps : gaps[n] > GapThreshold
    IN  IF ls = <<>> THEN FALSE
        ELSE IF all_spans = <<>> THEN FALSE
        ELSE IF Len(all_spans) < MinHeaderSpans THEN FALSE
        ELSE IF Len(all_spans) >= 2 THEN all_bold /\ has_gaps
        ELSE all_bold

(***************************************************************************)
(* _extract_table: row grouping                                            *)
(***************************************************************************)
RECURSIVE RowGroupsFrom(_, _, _, _, _, _, _)
\* the loop "for y in y_keys[1:]" from position n on, then the "last row"
\* append; cur_y = -1 stands for current_row_y = None.  y_groups[y] is never
\* empty for a key of y_groups, so "if not lines: continue" never fires.
RowGroupsFrom(lines, y_keys, header_y, n, cur_y, cur_lines, groups) ==
    LET flush == IF cur_lines # <<>>
                 THEN Append(groups, [y |-> cur_y, lines |-> cur_lines])
                 ELSE groups
    IN  IF n > Len(y_keys) THEN flush
        ELSE LET y == y_keys[n]
                 ls == YGroup(lines, y)
                 near == cur_y = -1 \/ Abs(y - cur_y) <= RowTolerance
                 ny == IF near THEN (IF cur_y = -1 THEN y ELSE cur_y) ELSE y
                 nl == IF near THEN cur_lines \o ls ELSE ls
                 ng == IF near THEN groups ELSE flush
             IN  IF y - header_y > CutoffY
                 THEN (IF nl # <<>> THEN Append(ng, [y |-> ny, lines |-> nl]) ELSE ng)
                 ELSE RowGroupsFrom(lines, y_keys, header_y, n + 1, ny, nl, ng)

\* row_groups of _extract_table(y_keys, y_groups)
RowGroups(lines, y_keys) ==
    RowGroupsFrom(lines, y_keys, y_keys[1], 2, -1, <<>>, <<>>)

(***************************************************************************)
(* _is_table_row, _extract_row_cells, continuation folding                 *)
(***************************************************************************)
IsTableRowInclusive(spans, cols) ==
    IF spans = <<>> THEN FALSE
    ELSE \E n \in DOMAIN spans : \E c \in DOMAIN cols :
            Abs(spans[n].x - cols[c]) <= ColTolerance

\* _is_table_row on the spans of the merged line
IsTableRow(spans, cols) ==
    IF spans = <<>> THEN FALSE
    ELSE \E n \in DOMAIN spans : \E c \in DOMAIN cols :
            Abs(spans[n].x - cols[c]) < ColTolerance

RECURSIVE NearestFromLast(_, _, _, _, _)
NearestFromLast(x, cols, c, min_dist, col_idx) ==
    IF c > Len(cols) THEN col_idx
    ELSE LET dist == Abs(x - cols[c])
         IN  IF min_dist = -1 \/ dist <= min_dist
             THEN NearestFromLast(x, cols, c + 1, dist, c)
             ELSE NearestFromLast(x, cols, c + 1, min_dist, col_idx)

RECURSIVE NearestFrom(_, _, _, _, _)
\* the inner loop of _extract_row_cells; min_dist = -1 stands for infinity
NearestFrom(x, cols, c, min_dist, col_idx) ==
    IF c > Len(cols) THEN col_idx
    ELSE LET dist == Abs(x - cols[c])
         IN  IF min_dist = -1 \/ dist < min_dist
             THEN NearestFrom(x, cols, c + 1, dist, c)
             ELSE NearestFrom(x, cols, c + 1, min_dist, col_idx)

NearestCol(x, cols) == NearestFrom(x, cols, 1, -1, 1)

RECURSIVE CellsFrom(_, _, _, _)
CellsFrom(spans, cols, n, cells) ==
    IF n > Len(spans) THEN cells
    ELSE LET c == NearestCol(spans[n].x, cols)
             sep == IF cells[c] # <<>> THEN <<" ">> ELSE <<>>
         IN  CellsFrom(spans, cols, n + 1,
                       [cells EXCEPT ![c] = cells[c] \o sep \o Strip(spans[n].text)])

ExtractRowCellsPerSpan(spans, cols, num_cols) ==
    [n \in DOMAIN spans |-> Strip(spans[n].text)]

\* _extract_row_cells
ExtractRowCells(spans, cols, num_cols) ==
    CellsFrom(spans, cols, 1, [c \in 1..num_cols |-> <<>>])

\* sum(1 for cell in row if cell.strip())
NonEmptyCount(row) == Cardinality({c \in DOMAIN row : Strip(row[c]) # <<>>})

IsContinuationNever(rs, row, num_cols) == FALSE

IsContinuationUpToTwo(rs, row, num_cols) ==
    rs # <<>> /\ Len(row) = num_cols /\ NonEmptyCount(row) \in {1, 2}

\* "if rows and len(row) == num_cols: ... if non_empty_count == 1"
IsContinuation(rs, row, num_cols) ==
    rs # <<>> /\ Len(row) = num_cols /\ NonEmptyCount(row) = 1

FoldIntoOverwrite(prev, row, num_cols) ==
    [c \in DOMAIN prev |->
        IF c <= num_cols /\ c \in DOMAIN row /\ Strip(row[c]) # <<>>
        THEN row[c]
        ELSE prev[c]]

\* the merge of a continuation row into rows[-1]
FoldInto(prev, row, num_cols) ==
    [c \in DOMAIN prev |->
        IF c <= num_cols /\ c \in DOMAIN row /\ Strip(row[c]) # <<>>
        THEN (IF prev[c] # <<>> THEN prev[c] \o <<" ">> \o row[c] ELSE row[c])
        ELSE prev[c]]

NextRowsKeepBoth(rs, row, num_cols) ==
    IF IsContinuation(rs, row, num_cols)
    THEN Append([rs EXCEPT ![Len(rs)] = FoldInto(rs[Len(rs)], row, num_cols)], row)
    ELSE Append(rs, row)

\* rows after one accepted row: folded into rows[-1] or appended
NextRows(rs, row, num_cols) ==
    IF IsContinuation(rs, row, num_cols)
    THEN [rs EXCEPT ![Len(rs)] = FoldInto(rs[Len(rs)], row, num_cols)]
    ELSE Append(rs, row)

(***************************************************************************)
(* Pages: the lines the extractor hands to detect_tables                   *)
(***************************************************************************)
Sp(t, x, b) == [text |-> t, x |-> x, width |-> 20, is_bold |-> b]

H3 == <<Sp(<<"A">>, 0, TRUE), Sp(<<" ", "B", " ">>, 100, TRUE), Sp(<<"C">>, 205, TRUE)>>
Hx == <<Sp(<<"P">>, 0, TRUE), Sp(<<"Q">>, 300, TRUE), Sp(<<"R">>, 400, TRUE)>>
B2 == <<Sp(<<"D">>, 0, TRUE), Sp(<<"E">>, 100, TRUE)>>
B1 == <<Sp(<<"G">>, 205, TRUE)>>
R3 == <<Sp(<<"1">>, 2, FALSE), Sp(<<"2">>, 101, FALSE), Sp(<<"3">>, 204, FALSE)>>
R02 == <<Sp(<<"4">>, 2, FALSE), Sp(<<"6">>, 204, FALSE)>>
C1 == <<Sp(<<"x">>, 101, FALSE)>>
Far == <<Sp(<<"f">>, 400, FALSE)>>
Blank == <<Sp(<<" ">>, 101, FALSE)>>

Ln(y, spans) == [y |-> y, spans |-> spans]

\* the lines a page is drawn from, in ascending y
Pool ==
    << Ln(9996, H3),  Ln(10000, H3), Ln(10000, B2), Ln(10004, B1),
       Ln(11500, R3), Ln(11600, C1), Ln(13000, C1), Ln(13000, R02),
       Ln(14500, Far), Ln(14500, Hx), Ln(16000, H3), Ln(16000, Far),
       Ln(16000, C1), Ln(17504, R3), Ln(30500, R3) >>

\* detect_tables called directly also accepts spans of blank text, which
\* extract_page_content never produces
PoolDetect == Pool \o << Ln(13000, Blank) >>

Reverse(s) == [n \in DOMAIN s |-> s[Len(s) + 1 - n]]

RECURSIVE AscIdx(_, _, _)
\* the strictly ascending sequences of at most n indices out of lo..hi
AscIdx(lo, hi, n) ==
    {<<>>} \cup
    (IF n = 0 THEN {}
     ELSE UNION { {<<a>> \o t : t \in AscIdx(a + 1, hi, n - 1)} : a \in lo..hi })

\* a page: at most MaxLines lines of the pool, supplied top-down or bottom-up
Pages(pool) ==
    UNION { LET asc == [n \in DOMAIN idx |-> pool[idx[n]]]
            IN  {asc, Reverse(asc)}
          : idx \in AscIdx(1, Len(pool), MaxLines) }

(***************************************************************************)
(* State machine                                                           *)
(***************************************************************************)
InitOn(page) ==
    /\ text_lines = page
    /\ pc = "detect"
    /\ i = 1
    /\ tables = <<>>
    /\ headers = <<>>
    /\ col_positions = <<>>
    /\ row_groups = <<>>
    /\ g = 0
    /\ rows = <<>>
    /\ table_y_end = 0
    /\ accepted = <<>>
    /\ taken = {}
    /\ origin = <<>>
    /\ rejected = {}
    /\ k = 0
    /\ tables_added = {}
    /\ out = <<>>
    /\ blocks = <<>>
    /\ grouped = <<>>
    /\ stage = "idle"
    /\ merged = <<>>
    /\ doc = <<>>
    /\ converter = "none"
    /\ page_num = 0
    /\ flow = <<>>
    /\ status = "idle"

Init == \E page \in Pages(Pool) : InitOn(page)

InitDetect == \E page \in Pages(PoolDetect) : InitOn(page)

\* header test: one line of up to MaxHeaderSpans spans, in any order, and a
\* one-span line on the same rounded y or on a later one; the x drawn put
\* gaps of 5 and of 6 units between spans 20 wide
HeaderSpans == {Sp(<<"h">>, x, b) : x \in {0, 25, 26}, b \in BOOLEAN}

RECURSIVE SeqsOf(_, _)
SeqsOf(S, n) ==
    IF n = 0 THEN {<<>>}
    ELSE {<<a>> \o t : a \in S, t \in SeqsOf(S, n - 1)}

InitHeader ==
    \E n \in 1..MaxHeaderSpans : \E a \in SeqsOf(HeaderSpans, n) :
    \E b \in HeaderSpans : \E yb \in {10004, 11500} : \E rev \in BOOLEAN :
        InitOn(IF rev THEN <<Ln(yb, <<b>>), Ln(10000, a)>>
                      ELSE <<Ln(10000, a), Ln(yb, <<b>>)>>)

sorted_ys == SortedYs(text_lines)

\* y_groups[sorted_ys[i]], as line indices
CurGroup == YGroup(text_lines, sorted_ys[i])

\* merged_line.spans of row group number n
MergedSpans(n) == AllSpans(LinesAt(text_lines, row_groups[n].lines))

ResetExtract ==
    /\ headers' = <<>>
    /\ col_positions' = <<>>
    /\ row_groups' = <<>>
    /\ g' = 0
    /\ rows' = <<>>
    /\ table_y_end' = 0
    /\ accepted' = <<>>
    /\ taken' = {}

\* detect_tables: the group at the cursor passes _is_table_header and
\* _extract_table starts: headers, column anchors and row groups
ScanHeader ==
    /\ pc = "detect"
    /\ i <= Len(sorted_ys)
    /\ IsTableHeader(LinesAt(text_lines, CurGroup))
    /\ LET all_header_spans == SortByX(AllSpans(LinesAt(text_lines, CurGroup)))
       IN  /\ headers' = [n \in DOMAIN all_header_spans |-> Strip(all_header_spans[n].text)]
           /\ col_positions' = [n \in DOMAIN all_header_spans |-> all_header_spans[n].x]
    /\ row_groups' = RowGroups(text_lines, SubSeq(sorted_ys, i, Len(sorted_ys)))
    /\ g' = 1
    /\ rows' = <<>>
    /\ table_y_end' = sorted_ys[i]
    /\ accepted' = <<>>
    /\ taken' = Range(CurGroup)
    /\ pc' = "extract"
    /\ UNCHANGED <<text_lines, i, tables, origin, rejected, convertVars>>
    /\ UNCHANGED <<layoutVars, docVars>>

\* detect_tables: the group at the cursor is no header, "i += 1"
ScanSkip ==
    /\ pc = "detect"
    /\ i <= Len(sorted_ys)
    /\ ~IsTableHeader(LinesAt(text_lines, CurGroup))
    /\ i' = i + 1
    /\ UNCHANGED <<text_lines, pc, tables, origin, rejected, extractVars, convertVars>>
    /\ UNCHANGED <<layoutVars, docVars>>

\* the row loop is over: no row group is left, or the next one fails
\* _is_table_row ("break")
RowLoopEnds ==
    IF g > Len(row_groups) THEN TRUE
    ELSE ~IsTableRow(MergedSpans(g), col_positions)

\* _extract_table: one iteration of "for row_y, row_lines in row_groups"
\* for a row group that passes _is_table_row
ExtractRow ==
    /\ pc = "extract"
    /\ ~RowLoopEnds
    /\ LET row == ExtractRowCells(MergedSpans(g), col_positions, Len(headers))
       IN  /\ rows' = NextRows(rows, row, Len(headers))
           /\ accepted' = Append(accepted, row)
    /\ table_y_end' = row_groups[g].y
    /\ taken' = taken \cup Range(row_groups[g].lines)
    /\ g' = g + 1
    /\ UNCHANGED <<text_lines, pc, i, tables, headers, col_positions, row_groups,
                   origin, rejected, convertVars>>
    /\ UNCHANGED <<layoutVars, docVars>>

TableFoundSkipsFurther ==
    /\ pc = "extract"
    /\ RowLoopEnds
    /\ rows # <<>>
    /\ tables' = Append(tables, [headers |-> headers, rows |-> rows,
                                 y_start |-> sorted_ys[i], y_end |-> table_y_end])
    /\ origin' = Append(origin, [accepted |-> accepted, taken |-> taken])
    /\ i' = i + 2 * Len(rows) + 1
    /\ pc' = "detect"
    /\ ResetExtract
    /\ UNCHANGED <<text_lines, rejected, convertVars>>
    /\ UNCHANGED <<layoutVars, docVars>>

\* _extract_table returns a TableStructure; detect_tables appends it and
\* skips len(table.rows) + 1 groups
TableFound ==
    /\ pc = "extract"
    /\ RowLoopEnds
    /\ rows # <<>>
    /\ tables' = Append(tables, [headers |-> headers, rows |-> rows,
                                 y_start |-> sorted_ys[i], y_end |-> table_y_end])
    /\ origin' = Append(origin, [accepted |-> accepted, taken |-> taken])
    /\ i' = i + Len(rows) + 1
    /\ pc' = "detect"
    /\ ResetExtract
    /\ UNCHANGED <<text_lines, rejected, convertVars>>
    /\ UNCHANGED <<layoutVars, docVars>>

\* _extract_table returns None; detect_tables falls through to "i += 1"
TableNone ==
    /\ pc = "extract"
    /\ RowLoopEnds
    /\ rows = <<>>
    /\ rejected' = rejected \cup Range(CurGroup)
    /\ i' = i + 1
    /\ pc' = "detect"
    /\ ResetExtract
    /\ UNCHANGED <<text_lines, tables, origin, convertVars>>
    /\ UNCHANGED <<layoutVars, docVars>>

\* detect_tables returns; convert starts "for line in text_lines"
DetectReturn ==
    /\ pc = "detect"
    /\ i > Len(sorted_ys)
    /\ pc' = "convert"
    /\ k' = 1
    /\ UNCHANGED <<text_lines, i, tables, origin, rejected, extractVars,
                   tables_added, out>>
    /\ UNCHANGED <<layoutVars, docVars>>

RECURSIVE InTableFrom(_, _, _)
\* the loop over table_y_ranges: the first table whose range holds y, 0 for None
InTableFrom(tabs, y, t) ==
    IF t > Len(tabs) THEN 0
    ELSE IF tabs[t].y_start <= y /\ y <= tabs[t].y_end THEN t
    ELSE InTableFrom(tabs, y, t + 1)

InTableIdx(tabs, y) == InTableFrom(tabs, y, 1)

\* convert: a line inside a table's range; the table is added when it has not
\* been and the line is within 1.0 of y_start; the line itself is skipped
ConvertTableLine ==
    /\ pc = "convert"
    /\ k <= Len(text_lines)
    /\ LET t == InTableIdx(tables, text_lines[k].y)
       IN  /\ t # 0
           /\ IF t \notin tables_added
                 /\ Abs(text_lines[k].y - tables[t].y_start) <= EmitTolerance
              THEN /\ out' = Append(out, [kind |-> "table", ref |-> t,
                                          y |-> tables[t].y_start])
                   /\ tables_added' = tables_added \cup {t}
              ELSE UNCHANGED <<out, tables_added>>
    /\ k' = k + 1
    /\ UNCHANGED <<text_lines, pc, i, tables, origin, rejected, extractVars>>
    /\ UNCHANGED <<layoutVars, docVars>>

\* convert: a line outside every table's range is added as a text line
ConvertTextLine ==
    /\ pc = "convert"
    /\ k <= Len(text_lines)
    /\ InTableIdx(tables, text_lines[k].y) = 0
    /\ out' = Append(out, [kind |-> "text", ref |-> k, y |-> text_lines[k].y])
    /\ k' = k + 1
    /\ UNCHANGED <<text_lines, pc, i, tables, origin, rejected, extractVars,
                   tables_added>>
    /\ UNCHANGED <<layoutVars, docVars>>

\* convert: the page's lines are exhausted
ConvertDone ==
    /\ pc = "convert"
    /\ k > Len(text_lines)
    /\ pc' = "done"
    /\ UNCHANGED <<text_lines, i, tables, origin, rejected, extractVars, convertVars>>
    /\ UNCHANGED <<layoutVars, docVars>>

NextDetect ==
    \/ ScanHeader
    \/ ScanSkip
    \/ ExtractRow
    \/ TableFound
    \/ TableNone
    \/ DetectReturn

Next ==
    \/ NextDetect
    \/ ConvertTableLine
    \/ ConvertTextLine
    \/ ConvertDone

\* one page through detect_tables and the convert loop
Spec == Init /\ [][Next]_vars

\* detect_tables alone, on any lines
SpecDetect == InitDetect /\ [][NextDetect]_vars

NextHeader ==
    \/ ScanHeader
    \/ ScanSkip
    \/ DetectReturn

\* the scan of detect_tables up to the first header match
SpecHeader == InitHeader /\ [][NextHeader]_vars

(***************************************************************************)
(* Row membership and cell assignment under one header                     *)
(***************************************************************************)
MaxRowLines == 3

\* rows under the anchors 0, 100, 205: one span 29 units from an anchor, one
\* exactly 30 units from the nearest, one far from all, a span midway
\* between two anchors beside an aligned one, two spans nearest to the same
\* anchor in both orders, and a full row
RowShapes ==
    { <<Sp(<<"n">>, 129, FALSE)>>,
      <<Sp(<<"e">>, 130, FALSE)>>,
      <<Sp(<<"f">>, 400, FALSE)>>,
      <<Sp(<<"t">>, 50, FALSE), Sp(<<"u">>, 101, FALSE)>>,
      <<Sp(<<"p", " ">>, 95, FALSE), Sp(<<"q">>, 105, FALSE)>>,
      <<Sp(<<"q">>, 105, FALSE), Sp(<<"p">>, 95, FALSE)>>,
      R3 }

RECURSIVE RowLinesFrom(_, _)
\* the lines of the shapes chosen, 15 units apart below the header; <<>>
\* leaves a position without a line
RowLinesFrom(choice, n) ==
    IF n > Len(choice) THEN <<>>
    ELSE (IF choice[n] = <<>> THEN <<>> ELSE <<Ln(10000 + 1500 * n, choice[n])>>)
         \o RowLinesFrom(choice, n + 1)

InitRows ==
    \E choice \in SeqsOf(RowShapes \cup {<<>>}, MaxRowLines) :
        InitOn(<<Ln(10000, H3)>> \o RowLinesFrom(choice, 1))

\* detect_tables on a three-column header and the rows under it
SpecRows == InitRows /\ [][NextDetect]_vars

(***************************************************************************)
(* src/pdf2docx_custom.py: LayoutAnalyzer                                  *)
(*                                                                         *)
(* A TextBlock is [text, x, y, width, height, font_name, font_size,        *)
(* font_flags, color]: y and height in hundredths of a page unit, x and    *)
(* width in page units, font_size in whole points, color the <<r, g, b>>   *)
(* triple.  The 3.0 of tolerance_y is 300.                                 *)
(***************************************************************************)
ToleranceY == 300

MergeGap == 2

DefaultFontSize == 12

\* the factors 1.5, 1.3 and 1.15 of classify_heading, in hundredths
Heading1Factor == 150

Heading2Factor == 130

Heading3Factor == 115

RECURSIVE InsertByYX(_, _)
\* b placed after every block whose (y, x) is <= (b.y, b.x)
InsertByYX(b, sorted) ==
    IF sorted = <<>> THEN <<b>>
    ELSE IF b.y < Head(sorted).y \/ (b.y = Head(sorted).y /\ b.x < Head(sorted).x)
         THEN <<b>> \o sorted
    ELSE <<Head(sorted)>> \o InsertByYX(b, Tail(sorted))

RECURSIVE SortByYX(_)
\* sorted(blocks, key=lambda b: (b.y, b.x)), stable
SortByYX(bs) ==
    IF bs = <<>> THEN <<>>
    ELSE InsertByYX(bs[Len(bs)], SortByYX(SubSeq(bs, 1, Len(bs) - 1)))

SortedBlocksAsSupplied(bs) == bs

\* sorted_blocks of group_into_lines
SortedBlocks(bs) == SortByYX(bs)

SameLineStrict(block, anchor) == Abs(block.y - anchor.y) < ToleranceY

\* "abs(block.y - current_line[0].y) <= self.tolerance_y"
SameLine(block, anchor) == Abs(block.y - anchor.y) <= ToleranceY

RECURSIVE SweepLinesNoFlush(_, _, _, _)
SweepLinesNoFlush(sorted, n, current_line, ls) ==
    IF n > Len(sorted) THEN ls
    ELSE IF SameLine(sorted[n], current_line[1])
         THEN SweepLinesNoFlush(sorted, n + 1, Append(current_line, sorted[n]), ls)
    ELSE SweepLinesNoFlush(sorted, n + 1, <<sorted[n]>>, Append(ls, current_line))

RECURSIVE SweepLinesChained(_, _, _, _)
SweepLinesChained(sorted, n, current_line, ls) ==
    IF n > Len(sorted) THEN Append(ls, current_line)
    ELSE IF SameLine(sorted[n], current_line[Len(current_line)])
         THEN SweepLinesChained(sorted, n + 1, Append(current_line, sorted[n]), ls)
    ELSE SweepLinesChained(sorted, n + 1, <<sorted[n]>>, Append(ls, current_line))

RECURSIVE SweepLines(_, _, _, _)
\* the loop "for block in sorted_blocks[1:]" from position n on, then the
\* append of the last current_line
SweepLines(sorted, n, current_line, ls) ==
    IF n > Len(sorted) THEN Append(ls, current_line)
    ELSE IF SameLine(sorted[n], current_line[1])
         THEN SweepLines(sorted, n + 1, Append(current_line, sorted[n]), ls)
    ELSE SweepLines(sorted, n + 1, <<sorted[n]>>, Append(ls, current_line))

SortLineAsSwept(line) == line

\* "line.sort(key=lambda b: b.x)"
SortLine(line) == SortByX(line)

\* LayoutAnalyzer.group_into_lines
GroupIntoLines(bs) ==
    IF bs = <<>> THEN <<>>
    ELSE LET sorted == SortedBlocks(bs)
             swept == SweepLines(sorted, 2, <<sorted[1]>>, <<>>)
         IN  [l \in DOMAIN swept |-> SortLine(swept[l])]

RECURSIVE MergedTextFromGap(_, _)
MergedTextFromGap(line, n) ==
    IF n > Len(line) THEN <<>>
    ELSE (IF n > 1 /\ line[n].x - (line[n - 1].x + line[n - 1].width) >= MergeGap
          THEN <<" ">> ELSE <<>>) \o line[n].text \o MergedTextFromGap(line, n + 1)

RECURSIVE MergedText(_, _)
\* the texts of line[n..], a space put before a block more than 2 units to
\* the right of the previous block's right edge
MergedText(line, n) ==
    IF n > Len(line) THEN <<>>
    ELSE (IF n > 1 /\ line[n].x - (line[n - 1].x + line[n - 1].width) > MergeGap
          THEN <<" ">> ELSE <<>>) \o line[n].text \o MergedText(line, n + 1)

RECURSIVE MaxHeight(_)
MaxHeight(line) ==
    IF Len(line) = 1 THEN line[1].height
    ELSE LET m == MaxHeight(Tail(line))
         IN  IF Head(line).height >= m THEN Head(line).height ELSE m

\* LayoutAnalyzer.merge_line_blocks on a line of at least one block
\* (group_into_lines returns no empty line)
MergeLineBlocks(line) ==
    IF Len(line) = 1 THEN line[1]
    ELSE [text |-> MergedText(line, 1),
          x |-> line[1].x,
          y |-> line[1].y,
          width |-> (line[Len(line)].x + line[Len(line)].width) - line[1].x,
          height |-> MaxHeight(line),
          font_name |-> line[1].font_name,
          font_size |-> line[1].font_size,
          font_flags |-> line[1].font_flags,
          color |-> line[1].color]

RECURSIVE SumFontSize(_)
SumFontSize(bs) ==
    IF bs = <<>> THEN 0 ELSE Head(bs).font_size + SumFontSize(Tail(bs))

\* avg_font_size of convert as the fraction sum / n
AvgFontSize(text_blocks) ==
    IF text_blocks # <<>>
    THEN [sum |-> SumFontSize(text_blocks), n |-> Len(text_blocks)]
    ELSE [sum |-> DefaultFontSize, n |-> 1]

\* font_size >= avg_font_size * factor / 100, on integers
AtLeast(font_size, avg, factor) == font_size * avg.n * 100 >= avg.sum * factor

ClassifyHeadingExclusive(block, avg) ==
    IF block.font_size * avg.n * 100 > avg.sum * Heading1Factor THEN 1
    ELSE IF block.font_size * avg.n * 100 > avg.sum * Heading2Factor THEN 2
    ELSE IF block.font_size * avg.n * 100 > avg.sum * Heading3Factor THEN 3
    ELSE 0

\* LayoutAnalyzer.classify_heading
ClassifyHeading(block, avg) ==
    IF AtLeast(block.font_size, avg, Heading1Factor) THEN 1
    ELSE IF AtLeast(block.font_size, avg, Heading2Factor) THEN 2
    ELSE IF AtLeast(block.font_size, avg, Heading3Factor) THEN 3
    ELSE 0

(***************************************************************************)
(* group_into_lines on its own                                             *)
(***************************************************************************)
MaxBlocks == 3

Blk(t, x, y) ==
    [text |-> <<t>>, x |-> x, y |-> y, width |-> 20, height |-> 1000,
     font_name |-> "Arial", font_size |-> 12, font_flags |-> 0, color |-> <<0, 0, 0>>]

\* blocks 2.0, 3.0 and 4.0 below the first, one of them 3.0 above the last,
\* and two blocks at the same (y, x)
BlockPool == {Blk("a", 50, 10000), Blk("e", 50, 10000), Blk("h", 0, 10000),
              Blk("b", 0, 10200), Blk("c", 20, 10300), Blk("d", 0, 10400),
              Blk("g", 10, 10700)}

RECURSIVE DistinctSeqs(_, _)
\* the sequences of at most n distinct elements of S
DistinctSeqs(S, n) ==
    {<<>>} \cup
    (IF n = 0 THEN {}
     ELSE UNION { {<<a>> \o t : t \in DistinctSeqs(S \ {a}, n - 1)} : a \in S })

PageIdle ==
    /\ text_lines = <<>>
    /\ pc = "idle"
    /\ i = 1
    /\ tables = <<>>
    /\ headers = <<>>
    /\ col_positions = <<>>
    /\ row_groups = <<>>
    /\ g = 0
    /\ rows = <<>>
    /\ table_y_end = 0
    /\ accepted = <<>>
    /\ taken = {}
    /\ origin = <<>>
    /\ rejected = {}
    /\ k = 0
    /\ tables_added = {}
    /\ out = <<>>

DocIdle ==
    /\ doc = <<>>
    /\ converter = "none"
    /\ page_num = 0
    /\ flow = <<>>
    /\ status = "idle"

InitLines ==
    \E bs \in DistinctSeqs(BlockPool, MaxBlocks) :
        /\ blocks = bs
        /\ grouped = <<>>
        /\ stage = "start"
        /\ merged = <<>>
        /\ PageIdle
        /\ DocIdle

pageVars == <<text_lines, pc, i, tables, origin, rejected, extractVars, convertVars>>

\* lines = group_into_lines(blocks)
GroupLines ==
    /\ stage = "start"
    /\ grouped' = GroupIntoLines(blocks)
    /\ stage' = "grouped"
    /\ UNCHANGED <<blocks, merged, pageVars, docVars>>

\* group_into_lines run again on the concatenation of the lines it returned
Regroup ==
    /\ stage = "grouped"
    /\ grouped' = GroupIntoLines(Flatten(grouped))
    /\ stage' = "regrouped"
    /\ UNCHANGED <<blocks, merged, pageVars, docVars>>

NextLines ==
    \/ GroupLines
    \/ Regroup

SpecLines == InitLines /\ [][NextLines]_vars

MaxMergeBlocks == 3

MBlk(t, x, width, y, height, font_name, font_size, font_flags, color) ==
    [text |-> <<t>>, x |-> x, y |-> y, width |-> width, height |-> height,
     font_name |-> font_name, font_size |-> font_size, font_flags |-> font_flags,
     color |-> color]

\* blocks of one line 2 and 3 units, no unit and less than no unit to the
\* right of one another, with different fonts and heights, and a block of
\* another line
MergePool == {MBlk("a", 0, 20, 10000, 1000, "Arial", 12, 0, <<0, 0, 0>>),
              MBlk("e", 20, 1, 10000, 1000, "Arial", 12, 2, <<0, 0, 0>>),
              MBlk("b", 22, 10, 10000, 1200, "Times", 17, 16, <<255, 0, 0>>),
              MBlk("c", 23, 10, 10100, 900, "Arial", 10, 0, <<0, 0, 255>>),
              MBlk("d", 35, 5, 10000, 1000, "Courier", 12, 18, <<0, 128, 0>>),
              MBlk("f", 0, 20, 10700, 1000, "Times", 23, 0, <<0, 0, 0>>)}

InitMerge ==
    \E bs \in DistinctSeqs(MergePool, MaxMergeBlocks) :
        /\ blocks = bs
        /\ grouped = <<>>
        /\ stage = "start"
        /\ merged = <<>>
        /\ PageIdle
        /\ DocIdle

\* "for line in lines: merged_block = self.analyzer.merge_line_blocks(line)"
MergeLines ==
    /\ stage = "grouped"
    /\ merged' = [l \in DOMAIN grouped |-> MergeLineBlocks(grouped[l])]
    /\ stage' = "merged"
    /\ UNCHANGED <<blocks, grouped, pageVars, docVars>>

NextMerge ==
    \/ GroupLines
    \/ MergeLines

\* group_into_lines, then merge_line_blocks on every line
SpecMerge == InitMerge /\ [][NextMerge]_vars

(***************************************************************************)
(* The Content Source and the extractors                                   *)
(*                                                                         *)
(* A page of the PDF is [fails, text, images]: fails says that reading the *)
(* page raises; text is the sequence of raw lines of get_text("dict"),     *)
(* each a sequence of raw spans [text, bbox, size, bold] with bbox =       *)
(* <<x0, y0, x1, y1>> (bold is bit 16 of the span's flags); images is the  *)
(* sequence of the page's images, each [bbox, extract_fails]: bbox is what *)
(* get_image_bbox returns, <<>> standing for None, and extract_fails says  *)
(* that doc.extract_image raises for the image.                            *)
(***************************************************************************)
RECURSIVE TextSpansOf(_)
\* AdvancedPDFExtractor.extract_page_content: the TextSpans of one raw line,
\* blank spans skipped
TextSpansOf(raw_line) ==
    IF raw_line = <<>> THEN <<>>
    ELSE LET span == Head(raw_line)
         IN  (IF Strip(span.text) = <<>> THEN <<>>
              ELSE << [text |-> span.text,
                       x |-> span.bbox[1],
                       y |-> span.bbox[2],
                       width |-> span.bbox[3] - span.bbox[1],
                       height |-> span.bbox[4] - span.bbox[2],
                       is_bold |-> span.bold] >>)
             \o TextSpansOf(Tail(raw_line))

RECURSIVE TextLinesOf(_)
\* AdvancedPDFExtractor.extract_page_content: content['text_lines']
TextLinesOf(raw_lines) ==
    IF raw_lines = <<>> THEN <<>>
    ELSE LET spans == TextSpansOf(Head(raw_lines))
         IN  (IF spans # <<>> THEN << [y |-> spans[1].y, spans |-> spans] >> ELSE <<>>)
             \o TextLinesOf(Tail(raw_lines))

RECURSIVE TextBlocksOf(_)
\* PDFExtractor.extract_text_blocks over the spans of every raw line
TextBlocksOf(raw_spans) ==
    IF raw_spans = <<>> THEN <<>>
    ELSE LET span == Head(raw_spans)
         IN  (IF Strip(span.text) = <<>> THEN <<>>
              ELSE << [text |-> Strip(span.text),
                       x |-> span.bbox[1],
                       y |-> span.bbox[2],
                       width |-> span.bbox[3] - span.bbox[1],
                       height |-> span.bbox[4] - span.bbox[2],
                       font_name |-> "Arial",
                       font_size |-> span.size,
                       font_flags |-> IF span.bold THEN 16 ELSE 0,
                       color |-> <<0, 0, 0>>] >>)
             \o TextBlocksOf(Tail(raw_spans))

ExtractTextBlocks(page) == TextBlocksOf(Flatten(page.text))

\* Rect.is_valid
IsValid(bbox) == bbox[1] <= bbox[3] /\ bbox[2] <= bbox[4]

\* bool(bbox): None is false, and so is a Rect whose coordinates are all 0
IsTruthy(bbox) == bbox # <<>> /\ bbox # <<0, 0, 0, 0>>

RECURSIVE ExtractImagesFrom(_)
\* PDFExtractor.extract_images: an ImageBlock for every image with a true
\* and valid bounding box for which extract_image does not raise
ExtractImagesFrom(imgs) ==
    IF imgs = <<>> THEN <<>>
    ELSE LET bbox == Head(imgs).bbox
         IN  (IF IsTruthy(bbox) /\ IsValid(bbox)
              THEN IF Head(imgs).extract_fails
                   THEN <<>>
                   ELSE << [x |-> bbox[1], y |-> bbox[2],
                            width |-> bbox[3] - bbox[1],
                            height |-> bbox[4] - bbox[2]] >>
              ELSE <<>>)
             \o ExtractImagesFrom(Tail(imgs))

ExtractImages(page) == ExtractImagesFrom(page.images)

(***************************************************************************)
(* detect_tables and the line loop of convert as functions of the page     *)
(***************************************************************************)
RECURSIVE TableRowsFrom(_, _, _, _, _, _, _)
\* _extract_table: "for row_y, row_lines in row_groups" from group n on
TableRowsFrom(tls, groups, cols, num_cols, n, rs, y_end) ==
    IF n > Len(groups) THEN [rows |-> rs, y_end |-> y_end]
    ELSE LET spans == AllSpans(LinesAt(tls, groups[n].lines))
         IN  IF ~IsTableRow(spans, cols) THEN [rows |-> rs, y_end |-> y_end]
             ELSE TableRowsFrom(tls, groups, cols, num_cols, n + 1,
                                NextRows(rs, ExtractRowCells(spans, cols, num_cols), num_cols),
                                groups[n].y)

\* TableDetector._extract_table; rows = <<>> stands for None
ExtractTable(tls, y_keys) ==
    LET all_header_spans == SortByX(AllSpans(LinesAt(tls, YGroup(tls, y_keys[1]))))
        hs == [n \in DOMAIN all_header_spans |-> Strip(all_header_spans[n].text)]
        cols == [n \in DOMAIN all_header_spans |-> all_header_spans[n].x]
        body == TableRowsFrom(tls, RowGroups(tls, y_keys), cols, Len(hs), 1, <<>>, y_keys[1])
    IN  [headers |-> hs, rows |-> body.rows, y_start |-> y_keys[1], y_end |-> body.y_end]

RECURSIVE DetectTablesFrom(_, _, _, _)
\* TableDetector.detect_tables: "while i < len(sorted_ys)" from cursor n on
DetectTablesFrom(tls, ys, n, tabs) ==
    IF n > Len(ys) THEN tabs
    ELSE IF IsTableHeader(LinesAt(tls, YGroup(tls, ys[n])))
         THEN LET table == ExtractTable(tls, SubSeq(ys, n, Len(ys)))
              IN  IF table.rows # <<>>
                  THEN DetectTablesFrom(tls, ys, n + Len(table.rows) + 1, Append(tabs, table))
                  ELSE DetectTablesFrom(tls, ys, n + 1, tabs)
    ELSE DetectTablesFrom(tls, ys, n + 1, tabs)

DetectTables(tls) == DetectTablesFrom(tls, SortedYs(tls), 1, <<>>)

\* an element added to the generator's document
Element(kind, page, y, item, level) ==
    [kind |-> kind, page |-> page, y |-> y, item |-> item, level |-> level]

RECURSIVE ConvertLinesFrom(_, _, _, _, _)
\* AdvancedPDF2DOCXConverter.convert: "for line in text_lines" from line n on
ConvertLinesFrom(tls, tabs, n, added, page) ==
    IF n > Len(tls) THEN <<>>
    ELSE LET t == InTableIdx(tabs, tls[n].y)
         IN  IF t = 0
             THEN <<Element("text", page, tls[n].y, tls[n], 0)>>
                  \o ConvertLinesFrom(tls, tabs, n + 1, added, page)
             ELSE IF t \notin added /\ Abs(tls[n].y - tabs[t].y_start) <= EmitTolerance
             THEN <<Element("table", page, tabs[t].y_start, tabs[t], 0)>>
                  \o ConvertLinesFrom(tls, tabs, n + 1, added \cup {t}, page)
             ELSE ConvertLinesFrom(tls, tabs, n + 1, added, page)

\* what one iteration of convert adds for the lines of a page
AdvancedPageFlow(tls, page) == ConvertLinesFrom(tls, DetectTables(tls), 1, {}, page)

(***************************************************************************)
(* PDF2DOCXConverter.convert: the elements of one page                     *)
(***************************************************************************)
\* "for line in lines": merge, classify, add_text_block
TextFlow(ls, avg, page) ==
    [l \in DOMAIN ls |->
        LET merged_block == MergeLineBlocks(ls[l])
        IN  Element("text", page, merged_block.y, merged_block,
                    ClassifyHeading(merged_block, avg))]

\* "for img in images": add_image
ImageFlow(images, page) ==
    [n \in DOMAIN images |-> Element("image", page, images[n].y, images[n], 0)]

CustomPageFlowPlaceholder(text_blocks, images, page) ==
    IF text_blocks = <<>> /\ images = <<>>
    THEN <<Element("text", page, 0, <<>>, 0)>>
    ELSE TextFlow(GroupIntoLines(text_blocks), AvgFontSize(text_blocks), page)
         \o ImageFlow(images, page)

\* the text lines of the page, then its images
CustomPageFlow(text_blocks, images, page) ==
    TextFlow(GroupIntoLines(text_blocks), AvgFontSize(text_blocks), page)
    \o ImageFlow(images, page)

(***************************************************************************)
(* The page loops of the two convert() and the documents drawn             *)
(***************************************************************************)
MaxPages == 3

MaxHeadingSpans == 3

RawImg(bbox, extract_fails) == [bbox |-> bbox, extract_fails |-> extract_fails]

RawSp(t, x0, y0, x1, y1, size, bold) ==
    [text |-> t, bbox |-> <<x0, y0, x1, y1>>, size |-> size, bold |-> bold]

PageEmpty == [fails |-> FALSE, text |-> <<>>, images |-> <<>>]

PageFails == [fails |-> TRUE, text |-> <<>>, images |-> <<>>]

\* two spans on one raw line, a blank span, and a second line
PageText ==
    [fails |-> FALSE,
     text |-> << << RawSp(<<"T">>, 0, 10000, 20, 11000, 12, FALSE),
                    RawSp(<<" ">>, 22, 10000, 28, 11000, 12, FALSE),
                    RawSp(<<"U", " ">>, 30, 10000, 50, 11000, 12, FALSE) >>,
                 << RawSp(<<"V">>, 0, 12000, 20, 13000, 18, FALSE) >> >>,
     images |-> <<>>]

\* three bold spans, a row under them, and a line far below
PageTable ==
    [fails |-> FALSE,
     text |-> << << RawSp(<<"A">>, 0, 10000, 20, 11000, 12, TRUE),
                    RawSp(<<"B">>, 100, 10000, 120, 11000, 12, TRUE),
                    RawSp(<<"C">>, 205, 10000, 225, 11000, 12, TRUE) >>,
                 << RawSp(<<"1">>, 2, 11500, 22, 12500, 12, FALSE),
                    RawSp(<<"2">>, 101, 11500, 121, 12500, 12, FALSE),
                    RawSp(<<"3">>, 204, 11500, 224, 12500, 12, FALSE) >>,
                 << RawSp(<<"W">>, 0, 30500, 20, 31500, 12, FALSE) >> >>,
     images |-> <<>>]

\* an image above the only text line and an image below it
PageImage ==
    [fails |-> FALSE,
     text |-> << << RawSp(<<"T">>, 0, 20000, 20, 21000, 12, FALSE) >> >>,
     images |-> << RawImg(<<0, 10000, 50, 15000>>, FALSE),
                   RawImg(<<0, 30000, 50, 35000>>, FALSE) >>]

\* a span and an image with inverted bounding boxes among valid ones
PageInverted ==
    [fails |-> FALSE,
     text |-> << << RawSp(<<"X">>, 50, 10000, 30, 11000, 12, FALSE) >>,
                 << RawSp(<<"Y">>, 0, 12000, 20, 13000, 12, FALSE) >> >>,
     images |-> << RawImg(<<0, 5000, 50, 4000>>, FALSE),
                   RawImg(<<0, 30000, 50, 35000>>, FALSE) >>]

\* an image with an all-zero box, one without a box, one whose extraction
\* raises, and one that is extracted
PageImageSkipped ==
    [fails |-> FALSE,
     text |-> << << RawSp(<<"T">>, 0, 20000, 20, 21000, 12, FALSE) >> >>,
     images |-> << RawImg(<<0, 0, 0, 0>>, FALSE),
                   RawImg(<<>>, FALSE),
                   RawImg(<<0, 10000, 50, 15000>>, TRUE),
                   RawImg(<<0, 30000, 50, 35000>>, FALSE) >>]

PageCatalogue == {PageEmpty, PageFails, PageText, PageTable, PageImage, PageInverted,
                  PageImageSkipped}

RECURSIVE SeqsUpTo(_, _)
\* the sequences of 1 to n elements of S
SeqsUpTo(S, n) ==
    IF n = 0 THEN {}
    ELSE SeqsUpTo(S, n - 1) \cup SeqsOf(S, n)

LayoutIdle ==
    /\ blocks = <<>>
    /\ grouped = <<>>
    /\ stage = "idle"
    /\ merged = <<>>

InitOnDoc(d, c) ==
    /\ doc = d
    /\ converter = c
    /\ page_num = 0
    /\ flow = <<>>
    /\ status = "running"
    /\ PageIdle
    /\ LayoutIdle

InitDoc ==
    \E d \in SeqsUpTo(PageCatalogue, MaxPages) : \E c \in {"advanced", "custom"} :
        InitOnDoc(d, c)

\* font sizes with ratios to the page mean on and around 1.15, 1.3 and 1.5
FontSizes == {7, 10, 12, 13, 17, 23, 30}

\* one page of spans of the sizes given, on one line or on a line each
HeadingPage(sizes, same_line) ==
    [fails |-> FALSE,
     text |-> << [n \in DOMAIN sizes |->
                     IF same_line
                     THEN RawSp(<<"s">>, 30 * n, 10000, 30 * n + 20, 11000, sizes[n], FALSE)
                     ELSE RawSp(<<"s">>, 0, 10000 + 2000 * n, 20, 11000 + 2000 * n,
                                sizes[n], FALSE)] >>,
     images |-> <<>>]

InitHeading ==
    \E n \in 1..MaxHeadingSpans : \E sizes \in SeqsOf(FontSizes, n) :
    \E same_line \in BOOLEAN :
        InitOnDoc(<<HeadingPage(sizes, same_line)>>, "custom")

PageBreak(page) == Element("page_break", page, 0, <<>>, 0)

BreakAfterEveryPage(n, page_count) == n < page_count

\* "if page_num < page_count - 1": a page break follows page n
BreakAfter(n, page_count) == n < page_count - 1

\* AdvancedPDF2DOCXConverter.convert: one iteration of "for page_num in
\* range(page_count)"; an exception of extract_page_content leaves convert
AdvancedPage ==
    /\ converter = "advanced"
    /\ status = "running"
    /\ page_num < Len(doc)
    /\ LET page == doc[page_num + 1]
       IN  IF page.fails
           THEN /\ status' = "raised"
                /\ UNCHANGED <<page_num, flow>>
           ELSE /\ flow' = flow \o AdvancedPageFlow(TextLinesOf(page.text), page_num)
                                \o (IF BreakAfter(page_num, Len(doc))
                                    THEN <<PageBreak(page_num)>> ELSE <<>>)
                /\ page_num' = page_num + 1
                /\ UNCHANGED status
    /\ UNCHANGED <<doc, converter, pageVars, layoutVars>>

\* AdvancedPDF2DOCXConverter.convert: the loop is over, generator.save
AdvancedSave ==
    /\ converter = "advanced"
    /\ status = "running"
    /\ page_num = Len(doc)
    /\ status' = "saved"
    /\ UNCHANGED <<doc, converter, page_num, flow, pageVars, layoutVars>>

\* PDF2DOCXConverter.convert: one iteration of "for page_num in
\* range(page_count)"; an exception of the extractor leaves convert
CustomPage ==
    /\ converter = "custom"
    /\ status = "running"
    /\ page_num < Len(doc)
    /\ LET page == doc[page_num + 1]
       IN  IF page.fails
           THEN /\ status' = "raised"
                /\ UNCHANGED <<page_num, flow>>
           ELSE /\ flow' = flow \o CustomPageFlow(ExtractTextBlocks(page),
                                                  ExtractImages(page), page_num)
                                \o (IF BreakAfter(page_num, Len(doc))
                                    THEN <<PageBreak(page_num)>> ELSE <<>>)
                /\ page_num' = page_num + 1
                /\ UNCHANGED status
    /\ UNCHANGED <<doc, converter, pageVars, layoutVars>>

\* PDF2DOCXConverter.convert: the loop is over, generator.save
CustomSave ==
    /\ converter = "custom"
    /\ status = "running"
    /\ page_num = Len(doc)
    /\ status' = "saved"
    /\ UNCHANGED <<doc, converter, page_num, flow, pageVars, layoutVars>>

MaxAddedTables == 1

\* the first row of rows longer than rows[1], 0 when there is none
RECURSIVE FirstLongRow(_, _)
FirstLongRow(table_rows, n) ==
    IF n > Len(table_rows) THEN 0
    ELSE IF Len(table_rows[n]) > Len(table_rows[1]) THEN n
    ELSE FirstLongRow(table_rows, n + 1)

\* the cells of the table of add_table: len(rows) by len(rows[0]), filled
\* row after row; a cell that no row_data reaches stays empty, and the
\* first cell_text beyond the columns raises and ends the filling
TableCells(table_rows) ==
    LET r == FirstLongRow(table_rows, 1)
    IN  [n \in DOMAIN table_rows |->
            [c \in DOMAIN table_rows[1] |->
                IF c <= Len(table_rows[n]) /\ (r = 0 \/ n <= r)
                THEN table_rows[n][c] ELSE <<>>]]

\* the arguments a caller hands to add_table: no row, rows of equal length,
\* a short last row and a long last row
AddTableInputs ==
    { <<>>,
      << <<<<"a">>, <<"b">>>>, <<<<"c">>, <<"d">>>> >>,
      << <<<<"a">>, <<"b">>>>, <<<<"c">>>> >>,
      << <<<<"a">>>>, <<<<"c">>, <<"d">>>>, <<<<"e">>>> >> }

\* the tables in the document that a caller of add_table put there
AddedTables == {n \in DOMAIN flow : flow[n].kind = "table" /\ flow[n].page = -1}

\* DOCXGenerator.add_table, called on the converter's generator by the
\* owner of the converter before convert or after it; the element carries
\* page -1, being of no page
CustomAddTable ==
    /\ converter = "custom"
    /\ status # "running" \/ page_num = 0
    /\ Cardinality(AddedTables) < MaxAddedTables
    /\ \E table_rows \in AddTableInputs :
          flow' = IF table_rows = <<>> THEN flow
                  ELSE Append(flow, Element("table", -1, 0, TableCells(table_rows), 0))
    /\ UNCHANGED <<doc, converter, page_num, status, pageVars, layoutVars>>

NextCustom ==
    \/ CustomPage
    \/ CustomSave
    \/ CustomAddTable

NextDoc ==
    \/ AdvancedPage
    \/ AdvancedSave
    \/ NextCustom

\* both converters over documents of 1 to MaxPages pages
SpecDoc == InitDoc /\ [][NextDoc]_vars

\* the custom converter over one page of spans of many font sizes
SpecHeading == InitHeading /\ [][NextCustom]_vars

(***************************************************************************)
(* Properties                                                              *)
(***************************************************************************)
\* the row just accepted by a step of the row loop, as extracted
RowAccepted == pc = "extract" /\ pc' = "extract" /\ g' = g + 1

NewRow == accepted'[Len(accepted')]

NonEmptyCols(row) == {c \in DOMAIN row : Strip(row[c]) # <<>>}

SpaceJoin(a, b) == IF a = <<>> THEN b ELSE a \o <<" ">> \o b

\* the step added no row and appended the non-empty cells of row to the same
\* columns of the previous row
FoldedStep(row) ==
    /\ rows # <<>>
    /\ Len(rows') = Len(rows)
    /\ \A r \in 1..(Len(rows) - 1) : rows'[r] = rows[r]
    /\ \A c \in DOMAIN row :
          rows'[Len(rows)][c] = IF c \in NonEmptyCols(row)
                                THEN SpaceJoin(rows[Len(rows)][c], row[c])
                                ELSE rows[Len(rows)][c]

\* the step added row as a new last row and changed no other row
AppendedStep(row) == rows' = Append(rows, row)

RECURSIVE TotalNonEmpty(_)
TotalNonEmpty(rs) ==
    IF rs = <<>> THEN 0
    ELSE Cardinality(NonEmptyCols(Head(rs))) + TotalNonEmpty(Tail(rs))

\* C1: every row of every table returned by detect_tables, and of the table
\* being extracted, has exactly len(headers) entries, folded rows included.
ColumnCountInvariant ==
    /\ \A t \in DOMAIN tables : \A r \in DOMAIN tables[t].rows :
          Len(tables[t].rows[r]) = Len(tables[t].headers)
    /\ pc = "extract" => \A r \in DOMAIN rows : Len(rows[r]) = Len(headers)

\* C1 witness: a table was returned one of whose rows received a folded
\* continuation row.
ColumnCountWitness ==
    \E t \in DOMAIN tables :
        /\ Len(origin[t].accepted) > Len(tables[t].rows)
        /\ Len(tables[t].rows) >= 2

\* C2: when a header match ends with _extract_table returning None, the
\* lines of that header are emitted as text lines by convert.
HeaderWithoutRowsEmittedAsText ==
    pc = "done" =>
        \A n \in rejected :
            \E e \in DOMAIN out : out[e].kind = "text" /\ out[e].ref = n

\* C3: no y-group of 2 or fewer spans starts a table, and every table
\* returned has at least 3 headers.
NoTableBelowThreeColumns ==
    /\ \A t \in DOMAIN tables : Len(tables[t].headers) >= 3
    /\ pc = "extract" =>
          /\ Len(AllSpans(LinesAt(text_lines, CurGroup))) >= 3
          /\ Len(headers) >= 3

\* C3 witness: a group of two bold spans 80 units apart, followed by a row
\* aligned with them, was scanned and no table came of it.
TwoBoldSpansWitness ==
    /\ pc = "convert"
    /\ tables = <<>>
    /\ Len(text_lines) = 2
    /\ text_lines[1].spans = B2
    /\ YKey(text_lines, 1) < YKey(text_lines, 2)
    /\ IsTableRow(text_lines[2].spans, <<B2[1].x, B2[2].x>>)

\* C4: for the lines of every y-group (same y rounded to 0.1),
\* _is_table_header is true exactly when the group has at least 3 spans, all
\* of them bold, and some gap between x-sorted neighbours exceeds 5.
HeaderTestIffThreeConditions ==
    \A n \in DOMAIN sorted_ys :
        LET ls == LinesAt(text_lines, YGroup(text_lines, sorted_ys[n]))
            sp == SortByX(AllSpans(ls))
        IN  IsTableHeader(ls) <=>
               /\ Len(sp) >= 3
               /\ \A a \in DOMAIN sp : sp[a].is_bold
               /\ \E a \in 1..(Len(sp) - 1) :
                     sp[a + 1].x - (sp[a].x + sp[a].width) > 5

\* C4 witness: a header made of two lines on the same rounded y, supplied
\* right to left, passed the test.
HeaderAcrossLinesWitness ==
    /\ pc = "extract"
    /\ Len(CurGroup) = 2
    /\ text_lines[1].spans[1].x > text_lines[2].spans[1].x

\* C5 as stated: an accepted row is folded into the previous row exactly
\* when exactly one of its columns is non-empty, and appended otherwise.
FoldIffOneNonEmpty ==
    [][RowAccepted =>
         IF Cardinality(NonEmptyCols(NewRow)) = 1
         THEN FoldedStep(NewRow)
         ELSE AppendedStep(NewRow)]_vars

\* C5 amended: an accepted row is folded into the previous row exactly when
\* exactly one of its columns is non-empty and the table already has a row;
\* every other accepted row is appended as a new row.
FoldIffOneNonEmptyAndPrevious ==
    [][RowAccepted =>
         IF Cardinality(NonEmptyCols(NewRow)) = 1 /\ rows # <<>>
         THEN FoldedStep(NewRow)
         ELSE AppendedStep(NewRow)]_vars

\* C5 witness: the first accepted row had one non-empty column and was kept
\* as a row, and a later one-column row was folded.
FoldWitness ==
    /\ pc = "extract"
    /\ Len(accepted) >= 2
    /\ Cardinality(NonEmptyCols(accepted[1])) = 1
    /\ Len(rows) < Len(accepted)

\* C6 as stated: folding leaves the total number of non-empty cells equal
\* and does not add rows.
FoldingConservesCells ==
    /\ \A t \in DOMAIN tables :
          /\ TotalNonEmpty(tables[t].rows) = TotalNonEmpty(origin[t].accepted)
          /\ Len(tables[t].rows) <= Len(origin[t].accepted)
    /\ pc = "extract" =>
          /\ TotalNonEmpty(rows) = TotalNonEmpty(accepted)
          /\ Len(rows) <= Len(accepted)

\* after folding the rows "before" into the rows "after": no more non-empty
\* cells, no more rows, and at most one non-empty cell lost per row folded
FoldBound(before, after) ==
    /\ TotalNonEmpty(after) <= TotalNonEmpty(before)
    /\ Len(after) <= Len(before)
    /\ TotalNonEmpty(before) - TotalNonEmpty(after) <= Len(before) - Len(after)

\* C6 amended: folding never increases the total number of non-empty cells
\* nor the row count; a fold into a non-empty cell merges two non-empty
\* cells into one, so the total drops by at most one per folded row.
FoldingNeverAddsCells ==
    /\ \A t \in DOMAIN tables : FoldBound(origin[t].accepted, tables[t].rows)
    /\ pc = "extract" => FoldBound(accepted, rows)

\* C6 witness: a returned table where one fold into a non-empty cell lowered
\* the number of non-empty cells and one fold into an empty cell did not.
FoldMergedCellsWitness ==
    \E t \in DOMAIN tables :
        /\ Len(tables[t].rows) + 2 = Len(origin[t].accepted)
        /\ TotalNonEmpty(tables[t].rows) + 1 = TotalNonEmpty(origin[t].accepted)

\* the case of C7: three columns, an established row, and an accepted row
\* with values in columns 0 and 2 only
OuterColumnsRow(row) ==
    Len(headers) = 3 /\ rows # <<>> /\ NonEmptyCols(row) = {1, 3}

\* C7 as stated: such a row is appended to columns 0 and 2 of the previous
\* row and the row count is unchanged.
OuterColumnsRowFolded ==
    [][RowAccepted /\ OuterColumnsRow(NewRow) => FoldedStep(NewRow)]_vars

\* C7 amended: such a row is appended as a new row; the row count grows by
\* one and the previous rows are unchanged.
OuterColumnsRowAppended ==
    [][RowAccepted /\ OuterColumnsRow(NewRow) => AppendedStep(NewRow)]_vars

\* C7 witness: a 3-column table under extraction whose second or later row
\* has values in columns 0 and 2 only.
OuterColumnsWitness ==
    /\ pc = "extract"
    /\ Len(headers) = 3
    /\ Len(rows) >= 2
    /\ NonEmptyCols(rows[Len(rows)]) = {1, 3}
    /\ rows[Len(rows)] = accepted[Len(accepted)]

\* C8: at the end of the page every detected table has been added to the
\* document exactly once.
TableEmittedExactlyOnce ==
    pc = "done" =>
        \A t \in DOMAIN tables :
            Cardinality({e \in DOMAIN out :
                            out[e].kind = "table" /\ out[e].ref = t}) = 1

\* C9: no line whose spans were taken into a detected table (header, row or
\* folded row, merged lines included) is emitted as a text line.
ConsumedLinesNotReEmitted ==
    \A e \in DOMAIN out :
        out[e].kind = "text" =>
            \A t \in DOMAIN origin : out[e].ref \notin origin[t].taken

\* C10: the elements emitted for the page, a table counted at its y_start,
\* are in non-decreasing y.
FlowOrdering ==
    \A a \in DOMAIN out : \A b \in DOMAIN out :
        a < b => out[a].y <= out[b].y

(***************************************************************************)
(* Properties of the document flow and of line grouping                    *)
(***************************************************************************)
\* C11: in PDF2DOCXConverter.convert an image whose y is smaller than the y
\* of a text line of the same page is emitted before that text line.
ImagesInterleavedByY ==
    converter = "custom" =>
        \A m, n \in DOMAIN flow :
            ( /\ flow[m].kind = "image"
              /\ flow[n].kind = "text"
              /\ flow[m].page = flow[n].page
              /\ flow[m].y < flow[n].y ) => m < n

\* the positions of the page breaks in the flow
Breaks == {n \in DOMAIN flow : flow[n].kind = "page_break"}

\* the positions of everything emitted for page p
OfPage(p) == {n \in DOMAIN flow : flow[n].page = p}

\* C12: for a document of N pages both converters emit one page break after
\* the last element of every page except the last and none after the last
\* page, N-1 in all when the document is saved; everything convert emits
\* for page p comes before the break that follows p and before everything
\* of page p+1.
PageBreaksBetweenPages ==
    status # "idle" =>
        /\ \A p \in 0..(page_num - 1) :
              Cardinality(OfPage(p) \cap Breaks) = IF p < Len(doc) - 1 THEN 1 ELSE 0
        /\ \A n \in Breaks : flow[n].page < page_num
        /\ status = "saved" => Cardinality(Breaks) = Len(doc) - 1
        /\ \A m, n \in DOMAIN flow \ AddedTables : m < n => flow[m].page <= flow[n].page
        /\ \A m \in Breaks : \A n \in OfPage(flow[m].page) : n <= m

\* C12 witness: a saved document of three pages, each with elements of its
\* own, and two page breaks.
PageBreaksWitness ==
    /\ status = "saved"
    /\ Len(doc) = 3
    /\ \A p \in 0..2 : OfPage(p) \ Breaks # {}
    /\ Cardinality(Breaks) = 2

Grouped == stage \in {"grouped", "regrouped"}

\* the y of the anchor of a line: its first block in (y, x) order
AnchorY(line) == CHOOSE y \in {b.y : b \in Range(line)} : \A b \in Range(line) : y <= b.y

\* the lines that hold block b
LinesOf(b) == {l \in DOMAIN grouped : b \in Range(grouped[l])}

\* C13 as stated: any two spans whose y differ by no more than tolerance_y
\* are placed in the same line.
CloseSpansShareLine ==
    Grouped =>
        \A a, b \in Range(blocks) :
            Abs(a.y - b.y) <= ToleranceY => LinesOf(a) \cap LinesOf(b) # {}

\* C13 amended: a span is placed in a line if and only if its y lies between
\* the y of the line's anchor and that y plus tolerance_y; two spans whose y
\* differ by no more than tolerance_y are in the same line or in two
\* consecutive lines.
SpansShareLineOfAnchor ==
    Grouped =>
        /\ \A l \in DOMAIN grouped : \A b \in Range(blocks) :
              b \in Range(grouped[l]) <=>
                  (AnchorY(grouped[l]) <= b.y /\ b.y <= AnchorY(grouped[l]) + ToleranceY)
        /\ \A a, b \in Range(blocks) :
              Abs(a.y - b.y) <= ToleranceY =>
                  \E la \in LinesOf(a) : \E lb \in LinesOf(b) : Abs(la - lb) <= 1

\* C13 witness: a line holds a span exactly tolerance_y below its anchor,
\* and a span of the next line is closer than tolerance_y to that span.
SplitCloseSpansWitness ==
    /\ Grouped
    /\ \E l \in DOMAIN grouped : \E a \in Range(grouped[l]) :
          /\ a.y = AnchorY(grouped[l]) + ToleranceY
          /\ l + 1 \in DOMAIN grouped
          /\ \E b \in Range(grouped[l + 1]) : Abs(a.y - b.y) <= ToleranceY

\* C14: the lines returned are in ascending order of their anchors' y, every
\* span of a later line has a y greater than the anchor of every earlier
\* line, and the spans of every line are in ascending order of x.
LinesAscending ==
    Grouped =>
        /\ \A l \in DOMAIN grouped : grouped[l] # <<>>
        /\ \A l1, l2 \in DOMAIN grouped :
              l1 < l2 =>
                  /\ AnchorY(grouped[l1]) < AnchorY(grouped[l2])
                  /\ \A b \in Range(grouped[l2]) : b.y > AnchorY(grouped[l1])
        /\ \A l \in DOMAIN grouped : \A m, n \in DOMAIN grouped[l] :
              m < n => grouped[l][m].x <= grouped[l][n].x

\* C14 witness: two lines were returned, and in one of them a span to the
\* left lies lower than a span to its right.
LinesAscendingWitness ==
    /\ Grouped
    /\ Len(grouped) >= 2
    /\ \E l \in DOMAIN grouped : \E m, n \in DOMAIN grouped[l] :
          m < n /\ grouped[l][m].x < grouped[l][n].x /\ grouped[l][m].y > grouped[l][n].y

\* the orders in which the blocks of bs can be supplied
Perms(bs) == {q \in DistinctSeqs(Range(bs), Len(bs)) : Len(q) = Len(bs)}

Members(ls) == [l \in DOMAIN ls |-> Range(ls[l])]

DistinctKeys(bs) ==
    \A m, n \in DOMAIN bs : m # n => (bs[m].y # bs[n].y \/ bs[m].x # bs[n].x)

\* C15: whatever the order in which the spans are supplied, the lines
\* returned have the same members (and the same order of members when no two
\* spans share both y and x); a second run on the concatenation of the lines
\* returns the same lines with the same members in the same order.
GroupingDeterministicIdempotent ==
    /\ stage = "grouped" =>
          \A q \in Perms(blocks) :
              /\ Members(GroupIntoLines(q)) = Members(grouped)
              /\ DistinctKeys(blocks) => GroupIntoLines(q) = grouped
    /\ stage = "regrouped" => grouped = GroupIntoLines(blocks)

\* C15 witness: the second run has returned, on blocks supplied out of
\* order, two of them at the same (y, x), that fall into two lines.
RegroupedWitness ==
    /\ stage = "regrouped"
    /\ Len(grouped) >= 2
    /\ blocks # SortByYX(blocks)
    /\ ~DistinctKeys(blocks)

RECURSIVE SizeSum(_)
\* the sum of the sizes of the non-blank spans among raw_spans
SizeSum(raw_spans) ==
    IF raw_spans = <<>> THEN 0
    ELSE (IF Strip(Head(raw_spans).text) = <<>> THEN 0 ELSE Head(raw_spans).size)
         + SizeSum(Tail(raw_spans))

RECURSIVE SizeCount(_)
SizeCount(raw_spans) ==
    IF raw_spans = <<>> THEN 0
    ELSE (IF Strip(Head(raw_spans).text) = <<>> THEN 0 ELSE 1) + SizeCount(Tail(raw_spans))

\* C16: every text element of the custom converter carries a level in 0..3:
\* 1 when its font size is at least 1.5 times the mean font size of the
\* spans of its page, otherwise 2 when at least 1.3 times, otherwise 3 when
\* at least 1.15 times, otherwise 0, a size exactly on a threshold included;
\* the average of a page without spans is 12.
HeadingLevelByRatio ==
    /\ AvgFontSize(<<>>).sum = 12 * AvgFontSize(<<>>).n
    /\ converter = "custom" =>
          \A e \in DOMAIN flow :
              flow[e].kind = "text" =>
                  LET fs == flow[e].item.font_size
                      S == SizeSum(Flatten(doc[flow[e].page + 1].text))
                      N == SizeCount(Flatten(doc[flow[e].page + 1].text))
                      level == flow[e].level
                  IN  /\ level \in 0..3
                      /\ level = 1 <=> 2 * fs * N >= 3 * S
                      /\ level = 2 <=> (2 * fs * N < 3 * S /\ 10 * fs * N >= 13 * S)
                      /\ level = 3 <=> (10 * fs * N < 13 * S /\ 20 * fs * N >= 23 * S)
                      /\ level = 0 <=> 20 * fs * N < 23 * S

\* C16 witness: a saved page with a heading of level 1 whose font size is
\* exactly 1.5 times the page mean, and a line of body text.
HeadingOnThresholdWitness ==
    /\ status = "saved"
    /\ converter = "custom"
    /\ \E e \in DOMAIN flow :
          /\ flow[e].kind = "text"
          /\ flow[e].level = 1
          /\ 2 * flow[e].item.font_size * SizeCount(Flatten(doc[1].text))
                = 3 * SizeSum(Flatten(doc[1].text))
    /\ \E e \in DOMAIN flow : flow[e].kind = "text" /\ flow[e].level = 0

\* a page the Content Source reads without error, with no span and no image
IsEmptyPage(page) == ~page.fails /\ page.text = <<>> /\ page.images = <<>>

\* C17: for a page with zero spans and zero images group_into_lines and
\* detect_tables return empty sequences, and the converter emits for it one
\* page break when it is not the last page and nothing when it is.
EmptyPageEmitsNothing ==
    \A p \in 0..(page_num - 1) :
        IsEmptyPage(doc[p + 1]) =>
            /\ GroupIntoLines(ExtractTextBlocks(doc[p + 1])) = <<>>
            /\ DetectTables(TextLinesOf(doc[p + 1].text)) = <<>>
            /\ OfPage(p) \subseteq Breaks
            /\ Cardinality(OfPage(p)) = IF p < Len(doc) - 1 THEN 1 ELSE 0

\* C17 witness: a saved document of three pages whose first and last pages
\* are empty and whose second page is not.
EmptyPageWitness ==
    /\ status = "saved"
    /\ Len(doc) = 3
    /\ IsEmptyPage(doc[1])
    /\ IsEmptyPage(doc[3])
    /\ OfPage(1) \ Breaks # {}

\* C18: a page whose extraction raises is emitted as empty and the
\* conversion goes on to the later pages and to the save: no exception
\* leaves convert.
FailingPageIsolated ==
    /\ status # "raised"
    /\ \A p \in 0..(page_num - 1) : doc[p + 1].fails => OfPage(p) \subseteq Breaks

\* C19: nothing emitted has a negative width or height: a span or an image
\* with an inverted bounding box is left out of the page's elements.
MalformedGeometrySkipped ==
    \A e \in DOMAIN flow :
        /\ flow[e].kind = "image" =>
              flow[e].item.width >= 0 /\ flow[e].item.height >= 0
        /\ (flow[e].kind = "text" /\ converter = "custom") =>
              flow[e].item.width >= 0 /\ flow[e].item.height >= 0
        /\ (flow[e].kind = "text" /\ converter = "advanced") =>
              \A s \in Range(flow[e].item.spans) : s.width >= 0 /\ s.height >= 0

\* C20: whenever detect_tables is about to test a y-group as a header, that
\* group lies below every y-group consumed by the tables returned so far
\* (their headers and the lines of their accepted row groups, folded rows
\* included).
CursorPastConsumedGroups ==
    (pc = "detect" /\ i <= Len(sorted_ys)) =>
        \A t \in DOMAIN origin : \A n \in origin[t].taken :
            YKey(text_lines, n) < sorted_ys[i]

(***************************************************************************)
(* Properties of table extraction                                          *)
(***************************************************************************)
\* C21: no line more than 200 units below the header is taken into a table,
\* and every table returned has y_end - y_start <= 200.
CutoffBoundsTable ==
    \A t \in DOMAIN tables :
        /\ tables[t].y_end - tables[t].y_start <= CutoffY
        /\ \A n \in origin[t].taken :
              YKey(text_lines, n) - tables[t].y_start <= CutoffY

\* some span lies less than 30 units from some column anchor
NearAnchor(spans, cols) ==
    \E n \in DOMAIN spans : \E c \in DOMAIN cols :
        spans[n].x - cols[c] < 30 /\ cols[c] - spans[n].x < 30

\* the lines of row groups 1 to n
GroupLinesUpTo(n) == UNION {Range(row_groups[j].lines) : j \in 1..n}

\* C22: a row group is accepted only if one of its spans lies within 30
\* units (less than 30) of a column anchor; the first row group that fails
\* ends the table, whose lines are those of the header and of the row groups
\* before it: no later row group is added.
RowMembershipAndContiguity ==
    [][ /\ (pc = "extract" /\ pc' = "extract") =>
              /\ NearAnchor(MergedSpans(g), col_positions)
              /\ g' = g + 1
              /\ Len(accepted') = g
        /\ (pc = "extract" /\ pc' = "detect") =>
              /\ g <= Len(row_groups) => ~NearAnchor(MergedSpans(g), col_positions)
              /\ Len(accepted) = g - 1
              /\ Len(tables') > Len(tables) =>
                    origin'[Len(origin')].taken = Range(CurGroup) \cup GroupLinesUpTo(g - 1)
      ]_vars

\* C22 witness: a table was returned that ends before a line whose only
\* span is exactly 30 units from the nearest anchor, and a line below that
\* one, not in the table, has a span within 30 units of an anchor.
RowAfterFailingRowWitness ==
    /\ Len(tables) = 1
    /\ \E m, n \in DOMAIN text_lines :
          /\ m < n
          /\ text_lines[m].spans = <<Sp(<<"e">>, 130, FALSE)>>
          /\ m \notin origin[1].taken
          /\ n \notin origin[1].taken
          /\ NearAnchor(text_lines[n].spans, <<0, 100, 205>>)

\* the columns whose anchor is at the smallest distance from x
MinDistCols(x, cols) ==
    {c \in DOMAIN cols : \A d \in DOMAIN cols : Abs(x - cols[c]) <= Abs(x - cols[d])}

\* the column of a span at x: the nearest anchor, the leftmost of two at
\* the same distance
ColOf(x, cols) == CHOOSE c \in MinDistCols(x, cols) : \A d \in MinDistCols(x, cols) : c <= d

RECURSIVE TextsOfCol(_, _, _)
\* the trimmed texts of the spans that belong to column c, in span order
TextsOfCol(spans, cols, c) ==
    IF spans = <<>> THEN <<>>
    ELSE (IF ColOf(Head(spans).x, cols) = c THEN <<Strip(Head(spans).text)>> ELSE <<>>)
         \o TextsOfCol(Tail(spans), cols, c)

RECURSIVE JoinWithSpace(_)
JoinWithSpace(ts) ==
    IF ts = <<>> THEN <<>>
    ELSE IF Len(ts) = 1 THEN ts[1]
    ELSE ts[1] \o <<" ">> \o JoinWithSpace(Tail(ts))

\* C23: every accepted row has one cell per column; the cell of a column is
\* the trimmed texts of the spans nearest to that column's anchor, in the
\* order of the spans, joined with single spaces, and is empty when no span
\* is nearest to it; every span goes to exactly one column.
CellAssignment ==
    pc = "extract" =>
        \A j \in DOMAIN accepted :
            /\ DOMAIN accepted[j] = DOMAIN col_positions
            /\ \A c \in DOMAIN col_positions :
                  accepted[j][c] = JoinWithSpace(TextsOfCol(MergedSpans(j), col_positions, c))

\* C23 witness: rows were extracted in which a span midway between two
\* anchors went to the left one, and two spans visited right to left share
\* a cell in that order.
CellAssignmentWitness ==
    /\ pc = "extract"
    /\ \E j \in DOMAIN accepted : accepted[j] = <<<<"t">>, <<"u">>, <<>>>>
    /\ \E j \in DOMAIN accepted : accepted[j] = <<<<>>, <<"q", " ", "p">>, <<>>>>

\* the spans of the header group at the cursor, in the order the lines hold them
HeaderInput == AllSpans(LinesAt(text_lines, CurGroup))

\* C24: the header cells and the column anchors come from the same spans of
\* the header group: as many of each as the group has spans, the anchors in
\* ascending x, the n-th header being the trimmed text of the span at the
\* n-th anchor, and every span of the group giving exactly one column.
HeaderFromSpansByX ==
    pc = "extract" =>
        /\ Len(headers) = Len(HeaderInput)
        /\ Len(col_positions) = Len(HeaderInput)
        /\ \A n \in 1..(Len(col_positions) - 1) : col_positions[n] <= col_positions[n + 1]
        /\ \A s \in Range(HeaderInput) :
              Cardinality({n \in DOMAIN headers :
                              col_positions[n] = s.x /\ headers[n] = Strip(s.text)})
              = Cardinality({n \in DOMAIN HeaderInput :
                              HeaderInput[n].x = s.x /\ Strip(HeaderInput[n].text) = Strip(s.text)})

\* C24 witness: a header was read from a group whose spans were not held in
\* x order and one of whose texts had surrounding blanks.
HeaderFromSpansWitness ==
    /\ pc = "extract"
    /\ \E n \in 1..(Len(HeaderInput) - 1) : HeaderInput[n].x > HeaderInput[n + 1].x
    /\ \E n \in DOMAIN HeaderInput : Strip(HeaderInput[n].text) # HeaderInput[n].text

\* C25: the sweep over the blocks in (y, x) order stays in the current line
\* exactly when the next block is within tolerance_y of the line's anchor:
\* every block of a line is within tolerance_y of the line's anchor y, the
\* anchor of every line after the first is more than tolerance_y from the
\* anchor of the line before it, and of two blocks adjacent in (y, x) order
\* the second is in the line of the first iff it is within tolerance_y of
\* that line's anchor.
AnchorSweep ==
    Grouped =>
        /\ \A l \in DOMAIN grouped : \A b \in Range(grouped[l]) :
              Abs(b.y - AnchorY(grouped[l])) <= ToleranceY
        /\ \A l \in DOMAIN grouped :
              l > 1 => Abs(AnchorY(grouped[l]) - AnchorY(grouped[l - 1])) > ToleranceY
        /\ LET sorted == SortedBlocks(blocks)
           IN  \A n \in 1..(Len(sorted) - 1) : \A l \in LinesOf(sorted[n]) :
                   sorted[n + 1] \in Range(grouped[l])
                       <=> Abs(sorted[n + 1].y - AnchorY(grouped[l])) <= ToleranceY

\* C25 witness: a line was closed by a block that is within tolerance_y of
\* the block before it but not of the line's anchor.
AnchorSweepWitness ==
    /\ Grouped
    /\ \E l \in DOMAIN grouped :
          /\ l + 1 \in DOMAIN grouped
          /\ Len(grouped[l]) >= 2
          /\ \E a \in Range(grouped[l]) :
                /\ a.y > AnchorY(grouped[l])
                /\ AnchorY(grouped[l + 1]) - a.y <= ToleranceY
                /\ AnchorY(grouped[l + 1]) - AnchorY(grouped[l]) > ToleranceY

(***************************************************************************)
(* Properties of merge_line_blocks                                         *)
(***************************************************************************)
\* what goes between the texts of two consecutive blocks of a line
Separator(prev, next) ==
    IF next.x - (prev.x + prev.width) > 2 THEN <<" ">> ELSE <<>>

RECURSIVE TextUpTo(_, _)
\* the texts of line[1..n], in line order, with the separators between them
TextUpTo(line, n) ==
    IF n = 1 THEN line[1].text
    ELSE TextUpTo(line, n - 1) \o Separator(line[n - 1], line[n]) \o line[n].text

\* C26: the merged block of a line of two or more blocks has the texts of
\* the blocks in line order, one space between two consecutive blocks
\* exactly when the second starts more than 2 units right of the right edge
\* of the first, and the font name, size, flags and colour of the first
\* block; the merged block of a one-block line is that block.
MergeKeepsTextAndFirstFont ==
    stage = "merged" =>
        /\ DOMAIN merged = DOMAIN grouped
        /\ \A l \in DOMAIN grouped :
              IF Len(grouped[l]) = 1 THEN merged[l] = grouped[l][1]
              ELSE /\ merged[l].text = TextUpTo(grouped[l], Len(grouped[l]))
                   /\ merged[l].font_name = grouped[l][1].font_name
                   /\ merged[l].font_size = grouped[l][1].font_size
                   /\ merged[l].font_flags = grouped[l][1].font_flags
                   /\ merged[l].color = grouped[l][1].color

\* C26 witness: a line of three blocks was merged, the second 2 units and
\* the third 3 units right of the block before, the fonts differing.
MergeWitness ==
    /\ stage = "merged"
    /\ \E l \in DOMAIN grouped :
          /\ Len(grouped[l]) = 3
          /\ grouped[l][2].x - (grouped[l][1].x + grouped[l][1].width) = 2
          /\ grouped[l][3].x - (grouped[l][2].x + grouped[l][2].width) = 3
          /\ grouped[l][1].font_name # grouped[l][2].font_name
          /\ grouped[l][1].color # grouped[l][3].color
          /\ merged[l].text = <<"a", "b", " ", "d">>

(***************************************************************************)
(* Properties of detect_tables over the whole scan                         *)
(***************************************************************************)
\* C27: the tables found have pairwise disjoint [y_start, y_end] ranges and
\* no line gave its spans to two tables.
TablesDisjoint ==
    \A s, t \in DOMAIN tables :
        s < t =>
            /\ tables[s].y_end < tables[t].y_start \/ tables[t].y_end < tables[s].y_start
            /\ origin[s].taken \cap origin[t].taken = {}

\* the y-groups that hold a line of the set ns
GroupsOf(ns) == {YKey(text_lines, n) : n \in ns}

\* C28: every iteration of the scan loop moves the cursor forward and never
\* beyond the position after the last y-group, the row loop moves forward
\* through the row groups, and every group the skip after a table passes
\* over is a group that table consumed.
CursorAdvancesOverConsumed ==
    [][ /\ (pc = "detect" /\ pc' = "detect") => i' = i + 1
        /\ (pc = "detect" /\ pc' = "extract") => (i' = i /\ i <= Len(sorted_ys))
        /\ (pc = "extract" /\ pc' = "extract") => (g' = g + 1 /\ g <= Len(row_groups) /\ i' = i)
        /\ (pc = "extract" /\ pc' = "detect") =>
              /\ i' > i
              /\ i' <= Len(sorted_ys) + 1
              /\ \A p \in i..(i' - 1) : sorted_ys[p] \in GroupsOf(taken)
        /\ (pc = "detect" /\ pc' = "convert") => i = Len(sorted_ys) + 1
      ]_vars

\* C28 witness: after a table of two rows the cursor stands three groups
\* further, on a group that the table did not consume.
CursorAfterTableWitness ==
    /\ pc = "detect"
    /\ Len(tables) = 1
    /\ Len(tables[1].rows) = 2
    /\ tables[1].y_start = sorted_ys[1]
    /\ i = 4
    /\ i <= Len(sorted_ys)
    /\ sorted_ys[i] \notin GroupsOf(origin[1].taken)

\* the places <<l, n>> of the lines where block b stands
PlacesOf(b) == {<<l, n>> \in (DOMAIN grouped) \X (1..Len(blocks)) :
                    n <= Len(grouped[l]) /\ grouped[l][n] = b}

\* C29: for a non-empty input the lines returned are a partition of the
\* input blocks: no line is empty, every block stands at exactly one place
\* of exactly one line, and the lines hold nothing but input blocks.
LinesPartitionBlocks ==
    (Grouped /\ blocks # <<>>) =>
        /\ \A l \in DOMAIN grouped : grouped[l] # <<>>
        /\ \A b \in Range(blocks) : Cardinality(PlacesOf(b)) = 1
        /\ \A l \in DOMAIN grouped : Range(grouped[l]) \subseteq Range(blocks)
        /\ Len(Flatten(grouped)) = Len(blocks)

\* C29 witness: three blocks were grouped into a line of two and a line of one.
LinesPartitionWitness ==
    /\ stage = "grouped"
    /\ Len(blocks) = 3
    /\ Len(grouped) = 2
    /\ \E l \in DOMAIN grouped : Len(grouped[l]) = 2

\* every span of the page has text that is not blank
AllSpansNonBlank ==
    \A n \in DOMAIN text_lines : \A s \in DOMAIN text_lines[n].spans :
        \E c \in DOMAIN text_lines[n].spans[s].text : text_lines[n].spans[s].text[c] # " "

\* the cells of a row that hold something else than blanks
FilledCells(row) == {c \in DOMAIN row : \E n \in DOMAIN row[c] : row[c][n] # " "}

\* C30: when no span of the page is blank, in every table found the first
\* data row has at least one non-empty cell and every later data row has
\* at least two.
FoldedTableShape ==
    AllSpansNonBlank =>
        \A t \in DOMAIN tables : \A r \in DOMAIN tables[t].rows :
            Cardinality(FilledCells(tables[t].rows[r])) >= (IF r = 1 THEN 1 ELSE 2)

\* C30 witness: a table of two rows was found whose first accepted row had
\* a single non-empty column and was kept as the first row, and one of
\* whose later accepted rows was folded.
FoldedTableWitness ==
    /\ AllSpansNonBlank
    /\ \E t \in DOMAIN tables :
          /\ Len(tables[t].rows) = 2
          /\ Cardinality(FilledCells(origin[t].accepted[1])) = 1
          /\ Cardinality(FilledCells(tables[t].rows[2])) >= 2
          /\ Len(origin[t].accepted) > 2

====
